---- MODULE Spec2Model ----
(***************************************************************************)
(* The lifecycle protocol of the Wayfound JavaScript SDK: the Session      *)
(* class (create / completeSession / appendToSession, SDK version 2.3.0)   *)
(* and the Recording class (recordMessages / completedRecording).          *)
(*                                                                         *)
(* Every lifecycle method is an async function that performs at most one   *)
(* axios request.  A method is modelled by two steps: the invocation (the  *)
(* code up to the await: precondition, payload, request) and the           *)
(* settlement (the code after the await, run when the transport answers).  *)
(* A run drives one instance, a Session or a Recording: the two classes    *)
(* share no state.  The adapter recordMessagesFromLangchainMemory and the   *)
(* legacy Recording class, whose constructor creates the recording, are    *)
(* modelled too; the legacy class has a specification of its own.          *)
(***************************************************************************)
EXTENDS Naturals, Sequences, FiniteSets, TLC

VARIABLES
    cls,          \* the class of the instance under test
    params,       \* the arguments the constructor was called with
    env,          \* process.env.WAYFOUND_APPLICATION_ID at construction
    wayfoundApiKey, \* this.wayfoundApiKey
    agentId,      \* this.agentId
    headers,      \* this.headers
    ctx,          \* Session: the five optional context fields of the instance
    sessionId,    \* Session: this.sessionId
    published,    \* Recording: this.published
    recordingId,  \* Recording: this.recordingId
    inflight,     \* requests handed to axios and not yet answered
    console,      \* what has been written to the console
    hist,         \* history: whether a creation call was made, how many
                  \* stored an identity, and the identity the last one stored
    last          \* the step taken last: which method, what it did

vars == <<cls, params, env, wayfoundApiKey, agentId, headers, ctx, sessionId, published,
          recordingId, inflight, console, hist, last>>

---------------------------------------------------------------------------
(* JavaScript values.  null and undefined are distinct values; a string is *)
(* itself.                                                                 *)

Null == "<null>"
Undefined == "<undefined>"

\* ToBoolean: null, undefined and the empty string are falsy.
Truthy(v) == v \notin {Null, Undefined, ""}

\* A value inside a template literal: `${v}`.
ToStr(v) == IF v = Null THEN "null" ELSE IF v = Undefined THEN "undefined" ELSE v

\* A destructured parameter with a default: the default replaces undefined only.
Default(v, d) == IF v = Undefined THEN d ELSE v

---------------------------------------------------------------------------
(* Bounds of the model.                                                    *)

MaxBatch == 2       \* longest message batch a caller passes
MaxInflight == 2    \* most requests pending at once when calls overlap
CreatedCap == 3     \* the creation counter saturates here
MaxMemory == 2      \* longest message list of a Langchain memory

---------------------------------------------------------------------------
(* Inputs.                                                                 *)

\* The caller's conversation: message i of it, as an opaque value.
Batch(n) == [i \in 1..n |-> i]

\* The messages argument: left out, null, or an array.
Omitted == [kind |-> "undefined"]
NullMessages == [kind |-> "null"]
Arr(q) == [kind |-> "array", items |-> q]
MessageArgs == {Omitted, NullMessages} \cup {Arr(Batch(n)) : n \in 1..MaxBatch}
AsyncArgs == BOOLEAN

\* Destructuring `{ messages = [] }`.
DefaultMessages(m) == IF m = Omitted THEN Arr(<<>>) ELSE m

ApiKey == "key-1"
\* The API keys a caller constructs an instance with.
ApiKeys == {ApiKey, "key-2"}
AgentIds == {"agent-1"}
\* Identities the server hands out; a response may also carry id null or no id.
ServerIds == {"abc123", "def456"}
ResponseIds == ServerIds \cup {Null, Undefined}
\* Identities a caller passes to the constructor.
GivenIds == {Null, "given-1"}

Fields == {"applicationId", "visitorId", "visitorDisplayName", "accountId",
           "accountDisplayName"}

NoRequest == [method |-> "none"]
NoResponse == [kind |-> "none"]
NoArgs == [messages |-> Omitted]
NoData == [id |-> Undefined]

---------------------------------------------------------------------------
(* The transport.                                                          *)

Statuses == {200, 201, 500}

\* What the server, or the network, answers to a request.
HttpResponses(ids) == [kind : {"http"}, status : Statuses, data : [id : ids]]
NetworkErrors == {[kind |-> "network", message |-> "Network Error"]}

\* axios settles: it rejects on a transport failure and, with the default
\* validateStatus, on every status outside 2xx.
AxiosRejects(r) == r.kind = "network" \/ r.status < 200 \/ r.status >= 300
AxiosError(r) ==
    IF r.kind = "network" THEN r.message
    ELSE "Request failed with status code " \o ToString(r.status)

---------------------------------------------------------------------------
(* What a step did, kept in `last`.                                        *)
(*   phase    "invoke": the code up to the await ran;                      *)
(*            "settle": the code after the await ran                       *)
(*   outcome  "pending": a request was issued and the call awaits it;      *)
(*            "returned": the call's promise resolved (ret is its value);  *)
(*            "threw": the call's promise rejected (error is the message)  *)
(*   request  the request the step issued or saw answered, or NoRequest    *)
(*   response the answer a settlement handled, or NoResponse               *)
(*   pre      the identity (sessionId / recordingId) before the step       *)
(*   args     the arguments of the call, at its invocation                 *)

Event(op, phase, outcome, error, request, response, pre, ret, args) ==
    [op |-> op, phase |-> phase, outcome |-> outcome, error |-> error,
     request |-> request, response |-> response, pre |-> pre, ret |-> ret,
     args |-> args]

Invoked(op, outcome, error, request, pre, args) ==
    Event(op, "invoke", outcome, error, request, NoResponse, pre, NoData, args)

Settled(op, outcome, error, request, response, pre, ret) ==
    Event(op, "settle", outcome, error, request, response, pre, ret, NoArgs)

Count(n) == IF n < CreatedCap THEN n + 1 ELSE n

---------------------------------------------------------------------------
(* Session, SDK version 2.3.0.                                             *)

WAYFOUND_HOST == "https://app.wayfound.ai"
WAYFOUND_CREATE_SESSION_URL == WAYFOUND_HOST \o "/api/v2/sessions"
WAYFOUND_APPEND_TO_SESSION_URL == WAYFOUND_HOST \o "/api/v2/sessions"
SDK_LANGUAGE == "JavaScript"

AlreadyCreated == "Session already created. Use appendToSession to add more messages."
NoSessionId == "No sessionId available. Complete a session first before appending."
DeprecatedWarning == "DEPRECATED: completeSession() is deprecated and will be removed in a future version. Use create() instead."

FieldValue(f) == f \o "-1"

\* Constructor arguments for the context fields: each left out (undefined),
\* null, the empty string, or a value; none or one of them given, or all of
\* them.
SessionParams ==
    {p \in [Fields -> {Undefined, Null, "", "v"}] :
        \/ Cardinality({f \in Fields : p[f] # Undefined}) <= 1
        \/ \A f, g \in Fields : p[f] = p[g]}

ParamValue(p, f) == IF p[f] = "v" THEN FieldValue(f) ELSE p[f]

\* The constructor's destructuring defaults.
SessionField(p, e, f) ==
    IF f = "applicationId" THEN Default(ParamValue(p, f), e)
    ELSE Default(ParamValue(p, f), Null)

\* Faulty variant: the bearer header built from one fixed key, not from the
\* key the instance was constructed with.
SessionHeaders_FixedKey(key) ==
    [ContentType |-> "application/json",
     Authorization |-> "Bearer " \o ApiKey,
     XSDKLanguage |-> SDK_LANGUAGE,
     XSDKVersion |-> "2.3.0"]

SessionHeaders(key) ==
    [ContentType |-> "application/json",
     Authorization |-> "Bearer " \o key,
     XSDKLanguage |-> SDK_LANGUAGE,
     XSDKVersion |-> "2.3.0"]

\* Faulty variant: the constructor dropping the sessionId it is given.
SessionInit_IgnoresGiven ==
    /\ cls = "Session"
    /\ env \in {Undefined, "env-app"}
    /\ \E p \in SessionParams, sid \in GivenIds, key \in ApiKeys :
          \* the second key is tried on the instances without context fields
          /\ key # ApiKey => (env = Undefined /\ \A f \in Fields : p[f] = Undefined)
          /\ params = [fields |-> p, sessionId |-> sid, wayfoundApiKey |-> key]
          /\ ctx = [f \in Fields |-> SessionField(p, env, f)]
          /\ sessionId = Null
          /\ wayfoundApiKey = key
    /\ agentId \in AgentIds
    /\ headers = SessionHeaders(wayfoundApiKey)
    /\ published = Undefined
    /\ recordingId = Undefined

SessionInit ==
    /\ cls = "Session"
    /\ env \in {Undefined, "env-app"}
    /\ \E p \in SessionParams, sid \in GivenIds, key \in ApiKeys :
          \* the second key is tried on the instances without context fields
          /\ key # ApiKey => (env = Undefined /\ \A f \in Fields : p[f] = Undefined)
          /\ params = [fields |-> p, sessionId |-> sid, wayfoundApiKey |-> key]
          /\ ctx = [f \in Fields |-> SessionField(p, env, f)]
          /\ sessionId = sid
          /\ wayfoundApiKey = key
    /\ agentId \in AgentIds
    /\ headers = SessionHeaders(wayfoundApiKey)
    /\ published = Undefined
    /\ recordingId = Undefined

\* Faulty variants of the identity check of create: no check at all, the
\* check inverted, and a truthiness check in place of the comparison with null.
CreateRefused_Never(sid) == FALSE
CreateRefused_Inverted(sid) == sid = Null
CreateRefused_Loose(sid) == sid \notin {Null, Undefined}
\* Faulty variant: create also refused while a creation request is pending.
CreateRefused_Pending(sid) ==
    sid # Null \/ \E i \in 1..Len(inflight) : inflight[i].op \in {"create", "completeSession"}

\* The identity check of create: `this.sessionId !== null`.
CreateRefused(sid) == sid # Null

\* Faulty variants of the payload of create: every context field sent,
\* whatever its value, and every context field sent unless it is null.
CreatePayload_AllKeys(messages, async) ==
    [k \in {"agentId", "messages", "async"} \cup Fields |->
        IF k = "agentId" THEN agentId
        ELSE IF k = "messages" THEN messages
        ELSE IF k = "async" THEN async
        ELSE ctx[k]]
CreatePayload_NonNull(messages, async) ==
    [k \in {"agentId", "messages", "async"} \cup {f \in Fields : ctx[f] # Null} |->
        IF k = "agentId" THEN agentId
        ELSE IF k = "messages" THEN messages
        ELSE IF k = "async" THEN async
        ELSE ctx[k]]

\* The payload of create: the three fixed keys, and each context field whose
\* value is truthy.
CreatePayload(messages, async) ==
    LET keys == {"agentId", "messages", "async"}
                  \cup {f \in Fields : Truthy(ctx[f])}
    IN  [k \in keys |->
            IF k = "agentId" THEN agentId
            ELSE IF k = "messages" THEN messages
            ELSE IF k = "async" THEN async
            ELSE ctx[k]]

CreateRequest(messages, async) ==
    [method |-> "POST", url |-> WAYFOUND_CREATE_SESSION_URL,
     body |-> CreatePayload(messages, async), headers |-> headers]

\* create, from the call to the await; `op` is the method the caller invoked,
\* `ready` whether the caller may make a call now.
CreateCall(ready, op, messagesArg, async) ==
    LET messages == DefaultMessages(messagesArg)
        args == [messages |-> messagesArg, async |-> async]
    IN
    /\ ready
    /\ cls = "Session"
    /\ hist' = [hist EXCEPT !.attempted = TRUE]
    /\ IF CreateRefused(sessionId)
       THEN /\ last' = Invoked(op, "threw", AlreadyCreated, NoRequest, sessionId, args)
            /\ UNCHANGED inflight
       ELSE LET req == CreateRequest(messages, async) IN
            /\ inflight' = Append(inflight, [op |-> op, request |-> req])
            /\ last' = Invoked(op, "pending", "", req, sessionId, args)
    /\ UNCHANGED <<cls, params, env, wayfoundApiKey, agentId, headers, ctx,
                   sessionId, published, recordingId>>

Create(ready, messagesArg, async) ==
    /\ CreateCall(ready, "create", messagesArg, async)
    /\ UNCHANGED console

\* Faulty variant of the alias: completeSession as it was before create
\* existed (SDK version 2.1.0), with its own endpoint and its own error text.
CompleteSession_Legacy(ready, messagesArg, async) ==
    LET messages == DefaultMessages(messagesArg)
        args == [messages |-> messagesArg, async |-> async]
        req == [CreateRequest(messages, async) EXCEPT
                   !.url = WAYFOUND_HOST \o "/api/v2/sessions/completed"]
    IN
    /\ ready
    /\ cls = "Session"
    /\ hist' = [hist EXCEPT !.attempted = TRUE]
    /\ IF sessionId # Null
       THEN /\ last' = Invoked("completeSession", "threw",
                               "Session already completed. Use appendToSession to add more messages.",
                               NoRequest, sessionId, args)
            /\ UNCHANGED inflight
       ELSE /\ inflight' = Append(inflight, [op |-> "completeSession", request |-> req])
            /\ last' = Invoked("completeSession", "pending", "", req, sessionId, args)
    /\ UNCHANGED <<cls, params, env, wayfoundApiKey, agentId, headers, ctx,
                   sessionId, published, recordingId, console>>

\* The deprecated alias: a console warning, then create.
CompleteSession(ready, messagesArg, async) ==
    /\ console' = console \cup {DeprecatedWarning}
    /\ CreateCall(ready, "completeSession", messagesArg, async)

Remove(q, i) == SubSeq(q, 1, i - 1) \o SubSeq(q, i + 1, Len(q))

\* Faulty variant: a missing id stored as null.
StoredId_NullIfMissing(r) == IF r.data.id = Undefined THEN Null ELSE r.data.id

\* The identity create stores from a response.
StoredId(r) == r.data.id

\* A creation stored the identity id.
Stored(h, id) ==
    [h EXCEPT !.created = IF id # Null THEN Count(@) ELSE @, !.createdId = id]

\* Faulty variant: the settlement of create storing the id of the response
\* before it tests the status.
CreateSettle_StoresFirst(i, r) ==
    LET c == inflight[i] IN
    /\ c.op \in {"create", "completeSession"}
    /\ inflight' = Remove(inflight, i)
    /\ IF AxiosRejects(r)
       THEN /\ last' = Settled(c.op, "threw",
                               "Error creating session: " \o AxiosError(r),
                               c.request, r, sessionId, NoData)
            /\ UNCHANGED <<sessionId, hist>>
       ELSE /\ sessionId' = StoredId(r)
            /\ hist' = Stored(hist, StoredId(r))
            /\ last' = IF r.status # 200
                       THEN Settled(c.op, "threw",
                                    "Error creating session: " \o
                                    ("Error creating session: " \o ToString(r.status)),
                                    c.request, r, sessionId, NoData)
                       ELSE Settled(c.op, "returned", "", c.request, r, sessionId, r.data)
    /\ UNCHANGED <<cls, params, env, wayfoundApiKey, agentId, headers, ctx,
                   published, recordingId, console>>

\* create, after the await: the i-th pending request is answered with r.
CreateSettle(i, r) ==
    LET c == inflight[i] IN
    /\ c.op \in {"create", "completeSession"}
    /\ inflight' = Remove(inflight, i)
    /\ IF AxiosRejects(r)
       THEN /\ last' = Settled(c.op, "threw",
                               "Error creating session: " \o AxiosError(r),
                               c.request, r, sessionId, NoData)
            /\ UNCHANGED <<sessionId, hist>>
       ELSE IF r.status # 200
       THEN /\ last' = Settled(c.op, "threw",
                               "Error creating session: " \o
                               ("Error creating session: " \o ToString(r.status)),
                               c.request, r, sessionId, NoData)
            /\ UNCHANGED <<sessionId, hist>>
       ELSE /\ sessionId' = StoredId(r)
            /\ hist' = Stored(hist, StoredId(r))
            /\ last' = Settled(c.op, "returned", "", c.request, r, sessionId, r.data)
    /\ UNCHANGED <<cls, params, env, wayfoundApiKey, agentId, headers, ctx,
                   published, recordingId, console>>

\* Faulty variant: appendToSession without its identity check.
AppendRefused_Never(sid) == FALSE
\* Faulty variant: the check of appendToSession let through while a creation
\* request is pending.
AppendRefused_UnlessPending(sid) ==
    /\ sid = Null
    /\ \A i \in 1..Len(inflight) : inflight[i].op \notin {"create", "completeSession"}

\* The identity check of appendToSession: `this.sessionId === null`.
AppendRefused(sid) == sid = Null

\* Faulty variant: the append URL without the identity.
AppendUrl_NoId(sid) == WAYFOUND_APPEND_TO_SESSION_URL

AppendUrl(sid) == WAYFOUND_APPEND_TO_SESSION_URL \o "/" \o ToStr(sid)

\* Faulty variant: the append request without the first message.
AppendRequest_DropsFirst(sid, messages, async) ==
    [method |-> "PUT", url |-> AppendUrl(sid),
     body |-> [messages |-> IF messages = NullMessages THEN Arr(<<>>)
                            ELSE IF messages.items = <<>> THEN messages
                            ELSE Arr(Tail(messages.items)),
               async |-> async],
     headers |-> headers]

AppendRequest(sid, messages, async) ==
    [method |-> "PUT", url |-> AppendUrl(sid),
     body |-> [messages |-> IF messages = NullMessages THEN Arr(<<>>) ELSE messages,
               async |-> async],
     headers |-> headers]

\* Faulty variant: appendToSession issuing its request before it checks the
\* identity.
AppendToSession_RequestFirst(ready, messagesArg, async) ==
    LET messages == DefaultMessages(messagesArg)
        args == [messages |-> messagesArg, async |-> async]
        req == AppendRequest(sessionId, messages, async)
    IN
    /\ ready
    /\ cls = "Session"
    /\ inflight' = Append(inflight, [op |-> "appendToSession", request |-> req])
    /\ last' = IF AppendRefused(sessionId)
               THEN Invoked("appendToSession", "threw", NoSessionId, req, sessionId, args)
               ELSE Invoked("appendToSession", "pending", "", req, sessionId, args)
    /\ UNCHANGED <<cls, params, env, wayfoundApiKey, agentId, headers, ctx,
                   sessionId, published, recordingId, console, hist>>

\* appendToSession, from the call to the await.
AppendToSession(ready, messagesArg, async) ==
    LET messages == DefaultMessages(messagesArg)
        args == [messages |-> messagesArg, async |-> async]
    IN
    /\ ready
    /\ cls = "Session"
    /\ IF AppendRefused(sessionId)
       THEN /\ last' = Invoked("appendToSession", "threw", NoSessionId, NoRequest,
                               sessionId, args)
            /\ UNCHANGED inflight
       ELSE LET req == AppendRequest(sessionId, messages, async) IN
            /\ inflight' = Append(inflight, [op |-> "appendToSession", request |-> req])
            /\ last' = Invoked("appendToSession", "pending", "", req, sessionId, args)
    /\ UNCHANGED <<cls, params, env, wayfoundApiKey, agentId, headers, ctx,
                   sessionId, published, recordingId, console, hist>>

\* Faulty variant: the settlement of appendToSession storing the id of the
\* response, as the settlement of create does.
AppendSettle_StoresId(i, r) ==
    LET c == inflight[i] IN
    /\ c.op = "appendToSession"
    /\ inflight' = Remove(inflight, i)
    /\ IF AxiosRejects(r) \/ r.status # 200
       THEN /\ last' = Settled(c.op, "threw", "Error appending to session: ",
                               c.request, r, sessionId, NoData)
            /\ UNCHANGED sessionId
       ELSE /\ last' = Settled(c.op, "returned", "", c.request, r, sessionId, r.data)
            /\ sessionId' = r.data.id
    /\ UNCHANGED <<cls, params, env, wayfoundApiKey, agentId, headers, ctx,
                   published, recordingId, console, hist>>

\* Faulty variant: the settlement of appendToSession taking every answer
\* axios resolves with, whatever its 2xx status, for a success.
AppendSettle_Any2xx(i, r) ==
    LET c == inflight[i] IN
    /\ c.op = "appendToSession"
    /\ inflight' = Remove(inflight, i)
    /\ last' =
         IF AxiosRejects(r)
         THEN Settled(c.op, "threw",
                      "Error appending to session: " \o AxiosError(r),
                      c.request, r, sessionId, NoData)
         ELSE Settled(c.op, "returned", "", c.request, r, sessionId, r.data)
    /\ UNCHANGED <<cls, params, env, wayfoundApiKey, agentId, headers, ctx,
                   sessionId, published, recordingId, console, hist>>

\* appendToSession, after the await.
AppendSettle(i, r) ==
    LET c == inflight[i] IN
    /\ c.op = "appendToSession"
    /\ inflight' = Remove(inflight, i)
    /\ last' =
         IF AxiosRejects(r)
         THEN Settled(c.op, "threw",
                      "Error appending to session: " \o AxiosError(r),
                      c.request, r, sessionId, NoData)
         ELSE IF r.status # 200
         THEN Settled(c.op, "threw",
                      "Error appending to session: " \o
                      ("Error appending to session: " \o ToString(r.status)),
                      c.request, r, sessionId, NoData)
         ELSE Settled(c.op, "returned", "", c.request, r, sessionId, r.data)
    /\ UNCHANGED <<cls, params, env, wayfoundApiKey, agentId, headers, ctx,
                   sessionId, published, recordingId, console, hist>>

---------------------------------------------------------------------------
(* Recording.                                                              *)

WAYFOUND_RECORDING_ACTIVE_URL == WAYFOUND_HOST \o "/api/v1/recordings/active"
WAYFOUND_RECORDING_COMPLETED_URL == WAYFOUND_HOST \o "/api/v1/recordings/completed"

\* The names bound in the scope of the Recording module: its imports, its
\* constants and the class.
RecordingScope ==
    {"axios", "version", "WAYFOUND_HOST", "WAYFOUND_RECORDING_ACTIVE_URL",
     "WAYFOUND_RECORDING_COMPLETED_URL", "SDK_LANGUAGE", "Recording"}

\* Evaluating an identifier that the module does not bind throws.
ReferenceError(name) == "ReferenceError: " \o name \o " is not defined"

\* Identities a caller passes to the Recording constructor (an identity is a
\* non-empty string the server assigned).
GivenRecordingIds == {Undefined, Null, "rec-1"}

BoolStr(b) == IF b THEN "true" ELSE "false"

RecordingHeaders(key) ==
    [ContentType |-> "application/json",
     Authorization |-> "Bearer " \o key,
     XSDKLanguage |-> SDK_LANGUAGE,
     XSDKVersion |-> "package.json version"]

RecordingInit ==
    /\ cls = "Recording"
    /\ env = Undefined
    /\ \E rid \in GivenRecordingIds, pub \in BOOLEAN, key \in ApiKeys :
          \* the second key is tried on the published instances
          /\ key # ApiKey => pub
          /\ params = [recordingId |-> rid, published |-> pub, wayfoundApiKey |-> key]
          /\ recordingId = Default(rid, Null)
          /\ published = pub
          /\ wayfoundApiKey = key
    /\ agentId \in AgentIds
    /\ headers = RecordingHeaders(wayfoundApiKey)
    /\ ctx = [f \in Fields |-> Undefined]
    /\ sessionId = Undefined

\* The branch of recordMessages: `!this.recordingId` sends the call to
\* newRecording.
NeedsNewRecording(rid) == ~Truthy(rid)

\* The URL newRecording builds, from the name WAYFOUND_RECORDINGS_URL.
NewRecordingUrlBound == "WAYFOUND_RECORDINGS_URL" \in RecordingScope

NewRecordingRequest(initialMessages) ==
    [method |-> "POST",
     url |-> WAYFOUND_RECORDING_ACTIVE_URL \o "?published=" \o BoolStr(published),
     body |-> [agentId |-> agentId, messages |-> initialMessages],
     headers |-> headers]

\* Faulty variant: the update without the stored identity.
UpdateRequest_NoId(rid, messages) ==
    [method |-> "PUT",
     url |-> WAYFOUND_RECORDING_ACTIVE_URL \o "?published=" \o BoolStr(published),
     body |-> [recordingId |-> Undefined, messages |-> messages],
     headers |-> headers]

UpdateRequest(rid, messages) ==
    [method |-> "PUT",
     url |-> WAYFOUND_RECORDING_ACTIVE_URL \o "?published=" \o BoolStr(published),
     body |-> [recordingId |-> rid, messages |-> messages],
     headers |-> headers]

\* recordMessages, from the call to the await; `op` is the method the caller
\* invoked and `args` its arguments.  With no recording it calls
\* newRecording, whose first statement builds the URL outside its try block:
\* the unbound name makes newRecording reject, and recordMessages wraps that.
RecordMessagesCall(ready, op, messages, args) ==
    /\ ready
    /\ cls = "Recording"
    /\ IF NeedsNewRecording(recordingId)
       THEN IF ~NewRecordingUrlBound
            THEN /\ last' = Invoked(op, "threw",
                                    "Error creating new recording: " \o
                                    ReferenceError("WAYFOUND_RECORDINGS_URL"),
                                    NoRequest, recordingId, args)
                 /\ UNCHANGED inflight
            ELSE LET req == NewRecordingRequest(messages) IN
                 /\ inflight' = Append(inflight, [op |-> op, request |-> req])
                 /\ last' = Invoked(op, "pending", "", req, recordingId, args)
       ELSE LET req == UpdateRequest(recordingId, messages) IN
            /\ inflight' = Append(inflight, [op |-> op, request |-> req])
            /\ last' = Invoked(op, "pending", "", req, recordingId, args)
    /\ UNCHANGED <<cls, params, env, wayfoundApiKey, agentId, headers, ctx,
                   sessionId, published, recordingId, console, hist>>

RecordMessages(ready, messages) ==
    RecordMessagesCall(ready, "recordMessages", messages, [messages |-> messages])

\* A Langchain memory: memory.chat_memory.messages, a list of entries with a
\* type and a content.
LangchainTypes == {"ai", "human", "system"}
LangchainContents == {"Hello", "Hi there!"}
LangchainEntries == [type : LangchainTypes, content : LangchainContents]
LangchainMemories ==
    UNION {[1..n -> LangchainEntries] : n \in 0..MaxMemory}

\* Faulty variant: the entries of other types dropped from the list.
FormatMessages_Filtered(messages) ==
    LET Known(m) == m.type \in {"ai", "human"}
        kept == SelectSeq(messages, Known)
    IN  [i \in 1..Len(kept) |->
            [role |-> IF kept[i].type = "ai" THEN "assistant" ELSE "user",
             content |-> kept[i].content]]

\* The map of recordMessagesFromLangchainMemory: an entry of type 'ai' or
\* 'human' becomes a role and the content; the callback returns nothing for
\* any other entry, which leaves undefined at its place.
FormatMessages(messages) ==
    [i \in 1..Len(messages) |->
        IF messages[i].type = "ai"
        THEN [role |-> "assistant", content |-> messages[i].content]
        ELSE IF messages[i].type = "human"
        THEN [role |-> "user", content |-> messages[i].content]
        ELSE Undefined]

\* recordMessagesFromLangchainMemory: the map, then `await
\* this.recordMessages(formattedMessages)`.
RecordMessagesFromLangchainMemory(ready, memory) ==
    RecordMessagesCall(ready, "recordMessagesFromLangchainMemory",
                       Arr(FormatMessages(memory)), [memory |-> memory])

\* Faulty variant: the settlement of recordMessages writing a failure to the
\* console and returning.
RecordMessagesSettle_Logged(i, r) ==
    LET c == inflight[i] IN
    /\ c.op = "recordMessages"
    /\ inflight' = Remove(inflight, i)
    /\ last' = Settled(c.op, "returned", "", c.request, r, recordingId, NoData)
    /\ console' = IF AxiosRejects(r)
                  THEN console \cup {"Error during PUT request: " \o AxiosError(r)}
                  ELSE console
    /\ UNCHANGED <<cls, params, env, wayfoundApiKey, agentId, headers, ctx,
                   sessionId, published, recordingId, hist>>

\* recordMessages, after the await: of newRecording's POST (store the id,
\* return) or of the update's PUT (return).
RecordMessagesSettle(i, r) ==
    LET c == inflight[i] IN
    /\ c.op \in {"recordMessages", "recordMessagesFromLangchainMemory"}
    /\ inflight' = Remove(inflight, i)
    /\ IF c.request.method = "POST"
       THEN IF AxiosRejects(r)
            THEN /\ last' = Settled(c.op, "threw",
                                    "Error creating new recording: " \o
                                    ("Error: Error creating new recording: " \o
                                     ("AxiosError: " \o AxiosError(r))),
                                    c.request, r, recordingId, NoData)
                 /\ UNCHANGED <<recordingId, hist>>
            ELSE /\ recordingId' = r.data.id
                 /\ hist' = Stored(hist, r.data.id)
                 /\ last' = Settled(c.op, "returned", "", c.request, r,
                                    recordingId, NoData)
       ELSE /\ last' =
                 IF AxiosRejects(r)
                 THEN Settled(c.op, "threw",
                              "Error updating recording request: " \o AxiosError(r),
                              c.request, r, recordingId, NoData)
                 ELSE Settled(c.op, "returned", "", c.request, r, recordingId, NoData)
            /\ UNCHANGED <<recordingId, hist>>
    /\ UNCHANGED <<cls, params, env, wayfoundApiKey, agentId, headers, ctx,
                   sessionId, published, console>>

\* The clock reading `new Date().toISOString()`.
Now == "<now>"
Timestamps == {Null, "2025-05-07T10:00:00Z"}
VisitorIds == {Null, "visitor-9"}

\* Faulty variant: the completion request carrying the stored identity.
CompletedRequest_WithId(messages, firstMessageAt, lastMessageAt, visitorId) ==
    LET keys == {"agentId", "messages", "firstMessageAt", "lastMessageAt", "recordingId"}
                  \cup (IF Truthy(visitorId) THEN {"visitorId"} ELSE {})
    IN  [method |-> "POST",
         url |-> WAYFOUND_RECORDING_COMPLETED_URL \o "?published=" \o BoolStr(published),
         body |-> [k \in keys |->
                     IF k = "agentId" THEN agentId
                     ELSE IF k = "messages" THEN messages
                     ELSE IF k = "firstMessageAt"
                          THEN (IF Truthy(firstMessageAt) THEN firstMessageAt ELSE Now)
                     ELSE IF k = "lastMessageAt"
                          THEN (IF Truthy(lastMessageAt) THEN lastMessageAt ELSE Now)
                     ELSE IF k = "recordingId" THEN recordingId
                     ELSE visitorId],
         headers |-> headers]

CompletedRequest(messages, firstMessageAt, lastMessageAt, visitorId) ==
    LET keys == {"agentId", "messages", "firstMessageAt", "lastMessageAt"}
                  \cup (IF Truthy(visitorId) THEN {"visitorId"} ELSE {})
    IN  [method |-> "POST",
         url |-> WAYFOUND_RECORDING_COMPLETED_URL \o "?published=" \o BoolStr(published),
         body |-> [k \in keys |->
                     IF k = "agentId" THEN agentId
                     ELSE IF k = "messages" THEN messages
                     ELSE IF k = "firstMessageAt"
                          THEN (IF Truthy(firstMessageAt) THEN firstMessageAt ELSE Now)
                     ELSE IF k = "lastMessageAt"
                          THEN (IF Truthy(lastMessageAt) THEN lastMessageAt ELSE Now)
                     ELSE visitorId],
         headers |-> headers]

\* completedRecording, from the call to the await: no check of recordingId.
CompletedRecording(ready, messagesArg, firstMessageAt, lastMessageAt, visitorId) ==
    LET req == CompletedRequest(DefaultMessages(messagesArg), firstMessageAt,
                                lastMessageAt, visitorId)
        args == [messages |-> messagesArg, firstMessageAt |-> firstMessageAt,
                 lastMessageAt |-> lastMessageAt, visitorId |-> visitorId]
    IN
    /\ ready
    /\ cls = "Recording"
    /\ inflight' = Append(inflight, [op |-> "completedRecording", request |-> req])
    /\ last' = Invoked("completedRecording", "pending", "", req, recordingId, args)
    /\ UNCHANGED <<cls, params, env, wayfoundApiKey, agentId, headers, ctx,
                   sessionId, published, recordingId, console, hist>>

\* Faulty variants: a success expected under another status, and every 2xx
\* status taken for a success.
CompletionAccepted_Created(r) == r.status = 201
CompletionAccepted_Any2xx(r) == r.status >= 200 /\ r.status < 300

\* Whether completedRecording takes the answer for a success.
CompletionAccepted(r) == r.status = 200

\* completedRecording, after the await.
CompletedRecordingSettle(i, r) ==
    LET c == inflight[i] IN
    /\ c.op = "completedRecording"
    /\ inflight' = Remove(inflight, i)
    /\ IF AxiosRejects(r)
       THEN /\ last' = Settled(c.op, "threw",
                               "Error completing recording request: " \o AxiosError(r),
                               c.request, r, recordingId, NoData)
            /\ UNCHANGED recordingId
       ELSE IF CompletionAccepted(r)
       THEN /\ recordingId' = Null
            /\ last' = Settled(c.op, "returned", "", c.request, r, recordingId, NoData)
       ELSE /\ last' = Settled(c.op, "threw",
                               "Error completing recording request: " \o
                               ("Error completing recording request: " \o
                                ToString(r.status)),
                               c.request, r, recordingId, NoData)
            /\ UNCHANGED recordingId
    /\ UNCHANGED <<cls, params, env, wayfoundApiKey, agentId, headers, ctx,
                   sessionId, published, console, hist>>

---------------------------------------------------------------------------
(* The program: one instance is constructed, then its methods are called   *)
(* and the transport answers.                                              *)

Init ==
    /\ SessionInit \/ RecordingInit
    /\ inflight = <<>>
    /\ console = {}
    /\ hist = [attempted |-> FALSE, created |-> 0, createdId |-> Null]
    /\ last = Invoked("constructor", "returned", "", NoRequest, Null, NoArgs)

Answers == HttpResponses(ResponseIds) \cup NetworkErrors
RecordingBatches == {Arr(Batch(n)) : n \in 0..MaxBatch}
CompletedBatches == RecordingBatches \cup {Omitted}

\* The supported use: the caller awaits each call before making the next.
Awaited == inflight = <<>>

\* Calls that overlap: a call is made while others are still pending.
Overlapping == Len(inflight) < MaxInflight

Next ==
    \/ \E m \in MessageArgs, a \in AsyncArgs : Create(Awaited, m, a)
    \/ \E m \in MessageArgs, a \in AsyncArgs : CompleteSession(Awaited, m, a)
    \/ \E m \in MessageArgs, a \in AsyncArgs : AppendToSession(Awaited, m, a)
    \/ \E m \in RecordingBatches : RecordMessages(Awaited, m)
    \/ \E m \in LangchainMemories : RecordMessagesFromLangchainMemory(Awaited, m)
    \/ \E m \in CompletedBatches, f, l \in Timestamps, v \in VisitorIds :
          CompletedRecording(Awaited, m, f, l, v)
    \/ \E i \in 1..Len(inflight), r \in Answers : CreateSettle(i, r)
    \/ \E i \in 1..Len(inflight), r \in Answers : AppendSettle(i, r)
    \/ \E i \in 1..Len(inflight), r \in Answers : RecordMessagesSettle(i, r)
    \/ \E i \in 1..Len(inflight), r \in Answers : CompletedRecordingSettle(i, r)

Spec == Init /\ [][Next]_vars

\* The arguments of overlapping calls: what is raced is the identity, so one
\* batch, one memory and the defaults of the optional arguments are enough.
OverlapMessageArgs == {Omitted, Arr(Batch(1))}
OverlapAsyncArgs == {TRUE}
OverlapBatches == {Arr(Batch(1))}
OverlapMemories == {m \in LangchainMemories : Len(m) = 1 /\ m[1].content = "Hello"}

NextOverlap ==
    \/ \E m \in OverlapMessageArgs, a \in OverlapAsyncArgs : Create(Overlapping, m, a)
    \/ \E m \in OverlapMessageArgs, a \in OverlapAsyncArgs : CompleteSession(Overlapping, m, a)
    \/ \E m \in OverlapMessageArgs, a \in OverlapAsyncArgs : AppendToSession(Overlapping, m, a)
    \/ \E m \in OverlapBatches : RecordMessages(Overlapping, m)
    \/ \E m \in OverlapMemories : RecordMessagesFromLangchainMemory(Overlapping, m)
    \/ \E m \in OverlapBatches, v \in VisitorIds :
          CompletedRecording(Overlapping, m, Null, Null, v)
    \/ \E i \in 1..Len(inflight), r \in Answers : CreateSettle(i, r)
    \/ \E i \in 1..Len(inflight), r \in Answers : AppendSettle(i, r)
    \/ \E i \in 1..Len(inflight), r \in Answers : RecordMessagesSettle(i, r)
    \/ \E i \in 1..Len(inflight), r \in Answers : CompletedRecordingSettle(i, r)

\* Overlapping calls are explored from the instances constructed without
\* context fields.
InitOverlap ==
    /\ Init
    /\ wayfoundApiKey = ApiKey
    /\ cls = "Session" => (env = Undefined /\ \A f \in Fields : params.fields[f] = Undefined)

SpecOverlap == InitOverlap /\ [][NextOverlap]_vars

---------------------------------------------------------------------------
(* The legacy Recording class (CommonJS): its constructor posts the        *)
(* creation request and returns without waiting for the answer, and        *)
(* recordMessages puts its update and returns at once; the answers are     *)
(* handled by then / catch callbacks.                                      *)

LegacyRecordingsUrl == "https://app.wayfound.ai/api/v1/recordings/active"

LegacyHeaders(key) ==
    [ContentType |-> "application/json", Authorization |-> "Bearer " \o key]

LegacyInitialMessages == {Arr(<<>>), Arr(Batch(1))}

\* The state the constructor leaves: recordingId not assigned yet, the
\* creation request pending.
InitLegacy ==
    /\ cls = "LegacyRecording"
    /\ env = Undefined
    /\ wayfoundApiKey = ApiKey
    /\ agentId \in AgentIds
    /\ headers = LegacyHeaders(wayfoundApiKey)
    /\ ctx = [f \in Fields |-> Undefined]
    /\ sessionId = Undefined
    /\ published = Undefined
    /\ recordingId = Undefined
    /\ console = {}
    /\ hist = [attempted |-> FALSE, created |-> 0, createdId |-> Null]
    /\ \E m \in LegacyInitialMessages :
          LET req == [method |-> "POST", url |-> LegacyRecordingsUrl,
                      body |-> [agentId |-> agentId, messages |-> m],
                      headers |-> headers]
          IN  /\ params = [wayfoundApiKey |-> wayfoundApiKey, initialMessages |-> m]
              /\ inflight = <<[op |-> "constructor", request |-> req]>>
              /\ last = Invoked("constructor", "returned", "", req, Undefined,
                                [messages |-> m])

\* `${error}` of the error axios rejects with.
AxiosErrorString(r) == "AxiosError: " \o AxiosError(r)

\* The then / catch callbacks of the constructor's POST.
LegacyConstructorSettle(i, r) ==
    LET c == inflight[i] IN
    /\ c.op = "constructor"
    /\ inflight' = Remove(inflight, i)
    /\ IF AxiosRejects(r)
       THEN /\ console' = console \cup {"Error during POST request: " \o AxiosErrorString(r)}
            /\ recordingId' = Null
            /\ last' = Settled(c.op, "logged", "", c.request, r, recordingId, NoData)
       ELSE /\ recordingId' = r.data.id
            /\ last' = Settled(c.op, "stored", "", c.request, r, recordingId, NoData)
            /\ UNCHANGED console
    /\ UNCHANGED <<cls, params, env, wayfoundApiKey, agentId, headers, ctx,
                   sessionId, published, hist>>

\* The legacy recordMessages: the PUT is issued and the method returns.
LegacyRecordCall(ready, op, messages, args) ==
    LET req == [method |-> "PUT", url |-> LegacyRecordingsUrl,
                body |-> [recordingId |-> recordingId, messages |-> messages],
                headers |-> headers]
    IN
    /\ ready
    /\ cls = "LegacyRecording"
    /\ inflight' = Append(inflight, [op |-> op, request |-> req])
    /\ last' = Invoked(op, "returned", "", req, recordingId, args)
    /\ UNCHANGED <<cls, params, env, wayfoundApiKey, agentId, headers, ctx,
                   sessionId, published, recordingId, console, hist>>

LegacyRecordMessages(ready, messages) ==
    LegacyRecordCall(ready, "recordMessages", messages, [messages |-> messages])

LegacyRecordMessagesFromLangchainMemory(ready, memory) ==
    LegacyRecordCall(ready, "recordMessagesFromLangchainMemory",
                     Arr(FormatMessages(memory)), [memory |-> memory])

\* Faulty variant: a failed update raised, not logged.
LegacyRecordMessagesSettle_Raises(i, r) ==
    LET c == inflight[i] IN
    /\ c.op \in {"recordMessages", "recordMessagesFromLangchainMemory"}
    /\ inflight' = Remove(inflight, i)
    /\ last' = IF AxiosRejects(r)
               THEN Settled(c.op, "threw", "Error during PUT request: " \o AxiosErrorString(r),
                            c.request, r, recordingId, NoData)
               ELSE Settled(c.op, "done", "", c.request, r, recordingId, NoData)
    /\ UNCHANGED <<cls, params, env, wayfoundApiKey, agentId, headers, ctx,
                   sessionId, published, recordingId, console, hist>>

\* The then / catch callbacks of the PUT of recordMessages.
LegacyRecordMessagesSettle(i, r) ==
    LET c == inflight[i] IN
    /\ c.op \in {"recordMessages", "recordMessagesFromLangchainMemory"}
    /\ inflight' = Remove(inflight, i)
    /\ IF AxiosRejects(r)
       THEN /\ console' = console \cup {"Error during PUT request: " \o AxiosErrorString(r)}
            /\ last' = Settled(c.op, "logged", "", c.request, r, recordingId, NoData)
       ELSE /\ last' = Settled(c.op, "done", "", c.request, r, recordingId, NoData)
            /\ UNCHANGED console
    /\ UNCHANGED <<cls, params, env, wayfoundApiKey, agentId, headers, ctx,
                   sessionId, published, recordingId, hist>>

NextLegacy ==
    \/ \E m \in OverlapBatches : LegacyRecordMessages(Overlapping, m)
    \/ \E m \in OverlapMemories : LegacyRecordMessagesFromLangchainMemory(Overlapping, m)
    \/ \E i \in 1..Len(inflight), r \in Answers : LegacyConstructorSettle(i, r)
    \/ \E i \in 1..Len(inflight), r \in Answers : LegacyRecordMessagesSettle(i, r)

SpecLegacy == InitLegacy /\ [][NextLegacy]_vars

---------------------------------------------------------------------------
(* Properties.  Unless said otherwise they are about Spec, where the       *)
(* caller awaits each call before making the next.                         *)

Creation == {"create", "completeSession"}
InvokedOp(ops) == last.op \in ops /\ last.phase = "invoke"
SettledOp(ops) == last.op \in ops /\ last.phase = "settle"
Refused(text) ==
    last.outcome = "threw" /\ last.error = text /\ last.request = NoRequest
Answered200 == last.response.kind = "http" /\ last.response.status = 200

(* C1: once a create call on the instance has succeeded and stored the     *)
(* identity the server returned, every further create call, whatever its   *)
(* messages and async flag, fails with the fixed "Session already created" *)
(* error and issues no request.                                            *)
C1_SecondCreateFails ==
    (InvokedOp({"create"}) /\ hist.created >= 1)
        => Refused("Session already created. Use appendToSession to add more messages.")

C1_Witness ==
    /\ InvokedOp({"create"}) /\ hist.created = 1 /\ last.outcome = "threw"
    /\ last.args = [messages |-> Arr(Batch(MaxBatch)), async |-> FALSE]

(* C2, as claimed: appendToSession called before any create call has been *)
(* made on the instance fails with the fixed "No sessionId available"      *)
(* error.                                                                  *)
C2_AppendBeforeCreateFails ==
    (InvokedOp({"appendToSession"}) /\ ~hist.attempted)
        => Refused("No sessionId available. Complete a session first before appending.")

(* C2, amended: on an instance constructed without a sessionId,            *)
(* appendToSession called before any create call has been made fails with  *)
(* the fixed "No sessionId available" error and issues no request.         *)
C2_AppendBeforeCreateFailsUnlessGiven ==
    (InvokedOp({"appendToSession"}) /\ ~hist.attempted /\ params.sessionId = Null)
        => Refused("No sessionId available. Complete a session first before appending.")

C2_Witness ==
    /\ InvokedOp({"appendToSession"}) /\ ~hist.attempted /\ params.sessionId = Null
    /\ last.outcome = "threw" /\ last.pre = Null

(* C3: when a create call returns on a response {id: X}, sessionId is X;   *)
(* from then on sessionId stays X and every appendToSession call issues a  *)
(* PUT to /api/v2/sessions/X.                                              *)
C3_AppendTargetsCreatedId ==
    /\ (SettledOp({"create"}) /\ last.outcome = "returned")
          => sessionId = last.response.data.id
    /\ hist.created >= 1 => sessionId = hist.createdId
    /\ (InvokedOp({"appendToSession"}) /\ hist.created >= 1)
          => /\ last.outcome = "pending"
             /\ last.request.method = "PUT"
             /\ last.request.url =
                  "https://app.wayfound.ai/api/v2/sessions/" \o ToStr(hist.createdId)

C3_Witness ==
    /\ InvokedOp({"appendToSession"}) /\ hist.createdId = "abc123"
    /\ sessionId = "abc123"
    /\ last.request.url = "https://app.wayfound.ai/api/v2/sessions/abc123"

(* C4: with calls that do not overlap, at most one creation call (create   *)
(* or completeSession) of a Session stores an identity, and every creation *)
(* call made on an identified instance fails without a request.            *)
C4_AtMostOneCreation ==
    cls = "Session" =>
        /\ hist.created <= 1
        /\ (InvokedOp(Creation) /\ last.pre # Null)
              => Refused("Session already created. Use appendToSession to add more messages.")

C4_Witness ==
    /\ InvokedOp({"completeSession"}) /\ hist.created = 1
    /\ last.outcome = "threw" /\ last.pre = hist.createdId

(* C5, as claimed: the identity of a Session starts null, and once it is   *)
(* set no later call changes it.                                           *)
C5_StartsNullSetOnce ==
    /\ cls = "Session" => sessionId = Null
    /\ [][(cls = "Session" /\ sessionId # Null) => sessionId' = sessionId]_vars

(* C5, amended: the identity of a Session starts as the sessionId given to *)
(* the constructor (null when none is given); it is at any time that       *)
(* starting value or the identity stored by the one creation call that     *)
(* succeeded; and once it is not null no later create, completeSession or  *)
(* appendToSession call, succeeding or failing, changes it.                *)
C5_StartsAsGivenSetOnce ==
    /\ cls = "Session" => sessionId = params.sessionId
    /\ [](cls = "Session" =>
            \/ sessionId = params.sessionId
            \/ hist.created = 1 /\ sessionId = hist.createdId)
    /\ [][(cls = "Session" /\ sessionId # Null) => sessionId' = sessionId]_vars

C5_Witness ==
    /\ SettledOp({"appendToSession"}) /\ last.outcome = "threw"
    /\ params.sessionId = Null /\ hist.created = 1 /\ sessionId = hist.createdId

(* C6: recordMessages on a Recording whose recordingId is null issues a    *)
(* POST to the active-recordings endpoint carrying agentId and the batch.  *)
C6_FirstRecordCreates ==
    (InvokedOp({"recordMessages"}) /\ last.pre = Null)
        => /\ last.outcome = "pending"
           /\ last.request.method = "POST"
           /\ last.request.url =
                "https://app.wayfound.ai/api/v1/recordings/active?published="
                    \o BoolStr(published)
           /\ last.request.body = [agentId |-> agentId, messages |-> last.args.messages]

(* C7: recordMessages on a Recording whose recordingId is set issues a PUT *)
(* to the active-recordings endpoint whose body carries the stored         *)
(* recordingId and the batch, and neither the call nor its answer changes  *)
(* recordingId.                                                            *)
C7_LaterRecordUpdates ==
    (last.op = "recordMessages" /\ last.pre # Null)
        => /\ last.request.method = "PUT"
           /\ last.request.url =
                "https://app.wayfound.ai/api/v1/recordings/active?published="
                    \o BoolStr(published)
           /\ last.request.body.recordingId = last.pre
           /\ last.phase = "invoke" => last.request.body.messages = last.args.messages
           /\ recordingId = last.pre

C7_Witness ==
    /\ SettledOp({"recordMessages"}) /\ last.outcome = "returned"
    /\ last.request.body = [recordingId |-> "rec-1", messages |-> Arr(Batch(MaxBatch))]
    /\ recordingId = "rec-1"

(* C8: the recordMessages call that follows a successful                   *)
(* completedRecording issues a create request (POST).                      *)
C8_RecordAfterCompletionCreates ==
    [][(/\ SettledOp({"completedRecording"}) /\ last.outcome = "returned"
        /\ last'.op = "recordMessages" /\ last'.phase = "invoke")
          => (last'.outcome = "pending" /\ last'.request.method = "POST")]_vars

(* C9: when the completion request is answered with status 200,            *)
(* completedRecording returns and recordingId is null, whatever it was.    *)
C9_CompletionResetsIdentity ==
    (SettledOp({"completedRecording"}) /\ Answered200)
        => (recordingId = Null /\ last.outcome = "returned")

C9_Witness ==
    /\ SettledOp({"completedRecording"}) /\ Answered200
    /\ last.pre = "rec-1" /\ recordingId = Null

(* C10: when the completion request is answered with another status, or    *)
(* fails in the transport, completedRecording raises an error, recordingId *)
(* keeps its value, and completedRecording can be called again.            *)
C10_FailedCompletionKeepsIdentity ==
    (SettledOp({"completedRecording"}) /\ ~Answered200)
        => /\ last.outcome = "threw"
           /\ recordingId = last.pre
           /\ ENABLED CompletedRecording(Awaited, Omitted, Null, Null, Null)

C10_Witness ==
    /\ SettledOp({"completedRecording"})
    /\ last.response.kind = "http" /\ last.response.status = 201
    /\ last.outcome = "threw" /\ recordingId = "rec-1"

C12_IncludedIffNonNull ==
    (InvokedOp(Creation) /\ last.outcome = "pending") =>
        \A f \in Fields :
           /\ f \in DOMAIN last.request.body <=> ctx[f] # Null
           /\ f \in DOMAIN last.request.body => last.request.body[f] = ctx[f]

(* C12, amended: the payload of a create request has the key of a context  *)
(* field exactly when the field's value on the instance is truthy, that    *)
(* is neither null nor undefined nor the empty string, and then carries    *)
(* that value.                                                             *)
C12_IncludedIffTruthy ==
    (InvokedOp(Creation) /\ last.outcome = "pending") =>
        \A f \in Fields :
           /\ f \in DOMAIN last.request.body <=> ctx[f] \notin {Null, Undefined, ""}
           /\ f \in DOMAIN last.request.body => last.request.body[f] = ctx[f]

C12_Witness ==
    /\ InvokedOp({"create"}) /\ last.outcome = "pending"
    /\ ctx["visitorId"] = "" /\ ctx["accountId"] = Null
    /\ ctx["applicationId"] = "env-app"
    /\ DOMAIN last.request.body = {"agentId", "messages", "async", "applicationId"}
    /\ last.request.body["applicationId"] = "env-app"

(* C13: no step of appendToSession, neither the call nor its settlement,   *)
(* succeeding or failing, changes sessionId, the credentials, the headers  *)
(* or the context fields; and after an append was answered the instance    *)
(* is still identified, so that a further append passes the identity check *)
(* and issues its request.                                                 *)
C13_AppendKeepsLocalState ==
    /\ [][last'.op = "appendToSession"
            => UNCHANGED <<sessionId, wayfoundApiKey, agentId, headers, ctx>>]_vars
    /\ [](SettledOp({"appendToSession"})
            => /\ sessionId = last.pre
               /\ sessionId # Null
               /\ ENABLED AppendToSession(Awaited, Omitted, TRUE))

C13_Witness ==
    /\ SettledOp({"appendToSession"}) /\ last.outcome = "returned"
    /\ last.response.data.id = "def456"
    /\ last.pre = "abc123" /\ sessionId = "abc123"
    /\ headers = SessionHeaders(ApiKey)

(* C14: a create call on a Session whose sessionId is not null, and an     *)
(* appendToSession call on a Session whose sessionId is null, throw the    *)
(* precondition error without handing any request to the transport, and    *)
(* leave sessionId as it was.                                              *)
C14_PreconditionBeforeNetwork ==
    /\ [][(/\ cls = "Session"
           /\ last'.phase = "invoke"
           /\ \/ last'.op = "create" /\ sessionId # Null
              \/ last'.op = "appendToSession" /\ sessionId = Null)
            => /\ inflight' = inflight
               /\ sessionId' = sessionId
               /\ last'.outcome = "threw"
               /\ last'.request = NoRequest]_vars
    /\ []((InvokedOp({"create"}) /\ last.pre # Null)
            => last.error = "Session already created. Use appendToSession to add more messages.")
    /\ []((InvokedOp({"appendToSession"}) /\ last.pre = Null)
            => last.error = "No sessionId available. Complete a session first before appending.")

C14_Witness ==
    /\ InvokedOp({"appendToSession"}) /\ last.pre = Null /\ last.outcome = "threw"
    /\ hist.attempted /\ hist.created = 0
    /\ inflight = <<>> /\ sessionId = Null

(* C15: whenever the request of create, completeSession, appendToSession,  *)
(* recordMessages or completedRecording is answered with a status outside  *)
(* 2xx or fails in the transport, the call throws, and the message of the  *)
(* error it throws is the method's prefix followed by the message of the   *)
(* cause (the transport's error message or "Request failed with status     *)
(* code N").                                                               *)
C15_FailuresAreRaised ==
    LET r == last.response
        failed == IF r.kind = "network" THEN TRUE
                  ELSE r.status < 200 \/ r.status > 299
        cause == IF r.kind = "network" THEN r.message
                 ELSE "Request failed with status code " \o ToString(r.status)
        prefix == IF last.op \in {"create", "completeSession"}
                      THEN "Error creating session: "
                  ELSE IF last.op = "appendToSession"
                      THEN "Error appending to session: "
                  ELSE IF last.op = "completedRecording"
                      THEN "Error completing recording request: "
                  ELSE "Error updating recording request: "
    IN  (last.phase = "settle" /\ failed)
            => (last.outcome = "threw" /\ last.error = prefix \o cause)

C15_Witness ==
    /\ SettledOp({"recordMessages"}) /\ last.response.kind = "network"
    /\ last.outcome = "threw"
    /\ last.error = "Error updating recording request: Network Error"
    /\ recordingId = "rec-1"

(* C16: every call of create, completeSession, appendToSession,            *)
(* recordMessages or completedRecording that passes its precondition check *)
(* hands exactly one request to the transport, and the settlement of a     *)
(* call, failed or not, hands over none.                                   *)
C16_ExactlyOneRequest ==
    /\ [][(/\ last'.phase = "invoke"
           /\ last'.op \in Creation => sessionId = Null
           /\ last'.op = "appendToSession" => sessionId # Null)
            => /\ Len(inflight') = Len(inflight) + 1
               /\ inflight'[Len(inflight')].request = last'.request
               /\ last'.request # NoRequest]_vars
    /\ [][last'.phase = "settle" => Len(inflight') = Len(inflight) - 1]_vars

(* C17, about SpecOverlap: a create call made while another creation       *)
(* request of the same Session is still pending finds sessionId null,      *)
(* passes the identity check and issues its own creation request; each     *)
(* creation answered with status 200 stores the id of its response, so     *)
(* sessionId is the id of the response processed last.                     *)
C17_OverlappingCreatesRace ==
    /\ [][(/\ last'.op = "create" /\ last'.phase = "invoke"
           /\ sessionId = Null
           /\ \E i \in 1..Len(inflight) : inflight[i].op \in Creation)
            => /\ last'.outcome = "pending"
               /\ last'.request.method = "POST"
               /\ last'.request.url = "https://app.wayfound.ai/api/v2/sessions"
               /\ inflight' = Append(inflight, [op |-> "create", request |-> last'.request])]_vars
    /\ []((SettledOp(Creation) /\ last.outcome = "returned")
            => sessionId = last.response.data.id)

\* Two creations were accepted by the server, and the second answer
\* replaced the identity the first had stored.
C17_Witness ==
    /\ SettledOp({"create"}) /\ last.outcome = "returned"
    /\ hist.created = 2
    /\ last.pre = "abc123" /\ sessionId = "def456"

(* C18: completeSession does what create does: what a call of either      *)
(* method does is one and the same function of the instance, the           *)
(* arguments (messages, async) and the answer.  On an instance whose       *)
(* sessionId is not null the call throws the "Session already created"     *)
(* error without a request; otherwise it issues the creation request built *)
(* from the arguments, to the create endpoint; and when that request is    *)
(* answered the call returns the response data and stores its id on status *)
(* 200, and throws and leaves sessionId alone on any other answer.         *)
C18_CompleteSessionIsCreate ==
    /\ InvokedOp({"create", "completeSession"}) =>
          IF CreateRefused(last.pre)
          THEN /\ Refused("Session already created. Use appendToSession to add more messages.")
               /\ sessionId = last.pre
          ELSE /\ last.outcome = "pending"
               /\ last.request = CreateRequest(DefaultMessages(last.args.messages),
                                               last.args.async)
               /\ last.request.url = "https://app.wayfound.ai/api/v2/sessions"
               /\ sessionId = last.pre
    /\ SettledOp({"create", "completeSession"}) =>
          /\ last.request.url = "https://app.wayfound.ai/api/v2/sessions"
          /\ IF AxiosRejects(last.response)
             THEN /\ last.outcome = "threw"
                  /\ last.error = "Error creating session: " \o AxiosError(last.response)
                  /\ sessionId = last.pre
             ELSE IF last.response.status # 200
             THEN /\ last.outcome = "threw"
                  /\ last.error = "Error creating session: Error creating session: "
                                     \o ToString(last.response.status)
                  /\ sessionId = last.pre
             ELSE /\ last.outcome = "returned"
                  /\ last.ret = last.response.data
                  /\ sessionId = StoredId(last.response)

C18_Witness ==
    /\ SettledOp({"completeSession"}) /\ last.outcome = "returned"
    /\ last.request.url = "https://app.wayfound.ai/api/v2/sessions"
    /\ last.pre = Null /\ sessionId = "abc123"
    /\ DeprecatedWarning \in console

(* C19: recordMessagesFromLangchainMemory called with a memory whose       *)
(* message list is M behaves as recordMessages called with the list L, of  *)
(* the length of M, where L[i] is {role: 'assistant', content: M[i]'s      *)
(* content} when M[i] has type 'ai' and {role: 'user', content: M[i]'s     *)
(* content} when it has type 'human': on a Recording without recordingId   *)
(* it throws what recordMessages throws, on one with a recordingId it      *)
(* issues the update carrying the recordingId and L, and the answer to     *)
(* that update is handled as recordMessages handles it.                    *)
C19_LangchainMapsThenRecords ==
    LET op == "recordMessagesFromLangchainMemory"
        M == last.args.memory
        L == last.request.body.messages.items
    IN
    /\ (InvokedOp({op}) /\ last.pre = Null)
          => /\ last.outcome = "threw" /\ last.request = NoRequest
             /\ last.error = "Error creating new recording: ReferenceError: WAYFOUND_RECORDINGS_URL is not defined"
             /\ recordingId = last.pre
    /\ (InvokedOp({op}) /\ last.pre # Null)
          => /\ last.outcome = "pending"
             /\ Len(L) = Len(M)
             /\ \A i \in 1..Len(M) :
                   /\ M[i].type = "ai"
                        => L[i] = [role |-> "assistant", content |-> M[i].content]
                   /\ M[i].type = "human"
                        => L[i] = [role |-> "user", content |-> M[i].content]
             /\ last.request = UpdateRequest(last.pre, Arr(L))
             /\ recordingId = last.pre
    /\ SettledOp({op})
          => /\ recordingId = last.pre
             /\ IF AxiosRejects(last.response)
                THEN /\ last.outcome = "threw"
                     /\ last.error = "Error updating recording request: "
                                        \o AxiosError(last.response)
                ELSE last.outcome = "returned" /\ last.ret = NoData

C19_Witness ==
    /\ InvokedOp({"recordMessagesFromLangchainMemory"})
    /\ last.args.memory = <<[type |-> "human", content |-> "Hello"],
                            [type |-> "ai", content |-> "Hi there!"]>>
    /\ last.request.method = "PUT"
    /\ last.request.body =
          [recordingId |-> "rec-1",
           messages |-> Arr(<<[role |-> "user", content |-> "Hello"],
                              [role |-> "assistant", content |-> "Hi there!"]>>)]

LifecycleMethods ==
    {"create", "completeSession", "appendToSession", "recordMessages",
     "completedRecording"}

(* C20: when create, completeSession, appendToSession, recordMessages or   *)
(* completedRecording is called with an array of messages and issues a     *)
(* request, the messages field of the request is that array, element for   *)
(* element and in the same order; called without messages, the methods     *)
(* that take them in an object send the empty array; and the request that  *)
(* is answered is the request that was issued.                             *)
C20_MessagesForwardedUnchanged ==
    /\ []((InvokedOp(LifecycleMethods) /\ last.outcome = "pending")
          => /\ last.args.messages.kind = "array"
                  => /\ last.request.body.messages.kind = "array"
                     /\ Len(last.request.body.messages.items)
                            = Len(last.args.messages.items)
                     /\ \A i \in 1..Len(last.args.messages.items) :
                            last.request.body.messages.items[i]
                                = last.args.messages.items[i]
             /\ last.args.messages = Omitted
                  => last.request.body.messages = Arr(<<>>)
             /\ inflight[Len(inflight)].request = last.request)
    /\ [][last'.phase = "settle"
            => \E i \in 1..Len(inflight) : inflight[i].request = last'.request]_vars

C20_Witness ==
    /\ InvokedOp({"appendToSession"}) /\ last.outcome = "pending"
    /\ last.args.messages = Arr(<<1, 2>>)
    /\ last.request.body.messages = Arr(<<1, 2>>)

(* C21: no step of any method of Session or Recording changes the API key, *)
(* the agent id or the headers; the key is the one the instance was        *)
(* constructed with, and every request issued, after whatever calls came   *)
(* before, carries the Authorization header "Bearer " followed by that     *)
(* key.                                                                    *)
C21_CredentialsImmutable ==
    /\ [][UNCHANGED <<wayfoundApiKey, agentId, headers>>]_vars
    /\ [](wayfoundApiKey = params.wayfoundApiKey)
    /\ []((last.phase = "invoke" /\ last.outcome = "pending")
            => last.request.headers.Authorization
                  = "Bearer " \o params.wayfoundApiKey)
    /\ [](\A i \in 1..Len(inflight) :
            inflight[i].request.headers.Authorization
                  = "Bearer " \o params.wayfoundApiKey)

C21_Witness ==
    /\ InvokedOp({"appendToSession"}) /\ last.outcome = "pending"
    /\ hist.created = 1
    /\ params.wayfoundApiKey = "key-2"
    /\ last.request.headers.Authorization = "Bearer key-2"

(* C22: a Session constructed with a sessionId that is not null is created *)
(* from the start: its sessionId is and stays the given one, every         *)
(* appendToSession call, with no create before it, passes the identity     *)
(* check and issues its PUT to the path of the given sessionId and returns *)
(* when that is answered with status 200, and every create call fails with *)
(* the "Session already created" error without a request.                  *)
C22_GivenIdStartsCreated ==
    (cls = "Session" /\ params.sessionId # Null) =>
        /\ sessionId = params.sessionId
        /\ hist.created = 0
        /\ InvokedOp({"appendToSession"})
              => /\ last.outcome = "pending"
                 /\ last.request.method = "PUT"
                 /\ last.request.url =
                      "https://app.wayfound.ai/api/v2/sessions/" \o params.sessionId
        /\ (SettledOp({"appendToSession"}) /\ Answered200)
              => last.outcome = "returned"
        /\ InvokedOp({"create"})
              => Refused("Session already created. Use appendToSession to add more messages.")

C22_Witness ==
    /\ SettledOp({"appendToSession"}) /\ last.outcome = "returned"
    /\ ~hist.attempted
    /\ params.sessionId = "given-1" /\ sessionId = "given-1"
    /\ last.request.url = "https://app.wayfound.ai/api/v2/sessions/given-1"

\* The identity of the instance: sessionId or recordingId.
Identity == IF cls = "Session" THEN sessionId ELSE recordingId

(* C23: when a call of create, completeSession, appendToSession,           *)
(* recordMessages or recordMessagesFromLangchainMemory throws, because its *)
(* request failed or before any request, the identity of the instance is   *)
(* what it was before the call; after a create whose request failed        *)
(* sessionId is still null, and the create call that follows passes the    *)
(* identity check and issues its request.                                  *)
C23_FailureKeepsIdentity ==
    /\ []((/\ last.outcome = "threw"
           /\ last.op \in {"create", "completeSession", "appendToSession",
                           "recordMessages", "recordMessagesFromLangchainMemory"})
            => Identity = last.pre)
    /\ []((SettledOp(Creation) /\ last.outcome = "threw") => sessionId = Null)
    /\ [][(/\ SettledOp(Creation) /\ last.outcome = "threw"
           /\ last'.op = "create" /\ last'.phase = "invoke")
            => (last'.outcome = "pending" /\ last'.request.method = "POST")]_vars

C23_Witness ==
    /\ SettledOp({"create"}) /\ last.outcome = "threw"
    /\ last.response.kind = "network"
    /\ last.pre = Null /\ sessionId = Null
    /\ ENABLED Create(Awaited, Omitted, TRUE)

(* C24: when the request of create, completeSession or appendToSession is  *)
(* answered with a 2xx status other than 200, the call throws an error     *)
(* naming that status and sessionId keeps its value: the id of the         *)
(* response is not stored; and the create call that follows such an answer *)
(* to a create issues a creation request again.                            *)
C24_Only200IsSuccess ==
    /\ []((/\ SettledOp({"create", "completeSession", "appendToSession"})
           /\ last.response.kind = "http"
           /\ last.response.status \in 201..299)
            => /\ last.outcome = "threw"
               /\ sessionId = last.pre
               /\ last.error =
                    IF last.op = "appendToSession"
                    THEN "Error appending to session: Error appending to session: "
                            \o ToString(last.response.status)
                    ELSE "Error creating session: Error creating session: "
                            \o ToString(last.response.status))
    /\ [][(/\ SettledOp({"create"})
           /\ last.response.kind = "http" /\ last.response.status \in 201..299
           /\ last'.op = "create" /\ last'.phase = "invoke")
            => /\ last'.outcome = "pending"
               /\ last'.request.method = "POST"
               /\ last'.request.url = "https://app.wayfound.ai/api/v2/sessions"]_vars

C24_Witness ==
    /\ SettledOp({"create"}) /\ last.outcome = "threw"
    /\ last.response.kind = "http" /\ last.response.status = 201
    /\ last.response.data.id = "abc123"
    /\ sessionId = Null /\ hist.created = 0

\* A creation request of the instance is awaiting its answer.
CreationPending == \E i \in 1..Len(inflight) : inflight[i].op \in Creation

(* C25, as claimed, about SpecOverlap: an appendToSession call made while  *)
(* a create call of the same Session is awaiting its response fails with   *)
(* the "No sessionId available" error and issues no request.               *)
C25_AppendDuringCreateFails ==
    (InvokedOp({"appendToSession"}) /\ CreationPending)
        => Refused("No sessionId available. Complete a session first before appending.")

(* C25, amended, about SpecOverlap: an appendToSession call made while a   *)
(* create call of the same Session is awaiting its response, and while     *)
(* sessionId is still null, fails with the "No sessionId available" error  *)
(* and issues no request; calling create does not change sessionId, which  *)
(* differs from the constructor's value only once a creation response has  *)
(* been processed; and when an overlapping create has been answered        *)
(* already, the append passes the check and targets the stored identity.   *)
C25_AppendDuringFirstCreateFails ==
    /\ []((InvokedOp({"appendToSession"}) /\ CreationPending /\ last.pre = Null)
            => Refused("No sessionId available. Complete a session first before appending."))
    /\ [][(last'.op \in Creation /\ last'.phase = "invoke")
            => sessionId' = sessionId]_vars
    /\ []((cls = "Session" /\ sessionId # params.sessionId) => hist.created >= 1)
    /\ []((InvokedOp({"appendToSession"}) /\ CreationPending /\ last.pre # Null)
            => /\ last.outcome = "pending"
               /\ last.request.url =
                    "https://app.wayfound.ai/api/v2/sessions/" \o ToStr(last.pre))

C25_Witness ==
    /\ InvokedOp({"appendToSession"}) /\ last.outcome = "threw"
    /\ Len(inflight) = 1 /\ inflight[1].op = "create"
    /\ sessionId = Null /\ hist.created = 0

(* C26: completedRecording checks nothing before its request: every call,  *)
(* on a Recording with or without recordingId, issues a POST to the        *)
(* completed-recordings endpoint whose payload has no recordingId key and  *)
(* leaves recordingId alone; and when the completion of a Recording whose  *)
(* recordingId is null succeeds, recordingId is null afterwards.           *)
C26_CompletionHasNoPrecondition ==
    /\ InvokedOp({"completedRecording"})
          => /\ last.outcome = "pending"
             /\ last.request.method = "POST"
             /\ last.request.url =
                  "https://app.wayfound.ai/api/v1/recordings/completed?published="
                      \o BoolStr(published)
             /\ "recordingId" \notin DOMAIN last.request.body
             /\ recordingId = last.pre
    /\ (SettledOp({"completedRecording"}) /\ last.outcome = "returned" /\ last.pre = Null)
          => recordingId = Null
    /\ (cls = "Recording" /\ inflight = <<>>)
          => ENABLED CompletedRecording(Awaited, Omitted, Null, Null, Null)

C26_Witness ==
    /\ SettledOp({"completedRecording"}) /\ last.outcome = "returned"
    /\ params.recordingId = Undefined
    /\ last.pre = Null /\ recordingId = Null
    /\ "recordingId" \notin DOMAIN last.request.body

(* C27: when a creation request is answered with status 200 and a body     *)
(* without id, sessionId becomes undefined, which is not null: from then   *)
(* on every create call fails with the "Session already created" error and *)
(* every appendToSession call issues its PUT to /api/v2/sessions/undefined.*)
(* When the body has id null, sessionId is null afterwards and the create  *)
(* call that follows issues a creation request.                            *)
C27_MissingIdCountsAsCreated ==
    /\ []((SettledOp(Creation) /\ last.outcome = "returned")
            => /\ last.response.data.id = Undefined => sessionId = Undefined
               /\ last.response.data.id = Null => sessionId = Null)
    /\ []((cls = "Session" /\ InvokedOp({"create"}) /\ last.pre = Undefined)
            => Refused("Session already created. Use appendToSession to add more messages."))
    /\ []((cls = "Session" /\ InvokedOp({"appendToSession"}) /\ last.pre = Undefined)
            => /\ last.outcome = "pending"
               /\ last.request.method = "PUT"
               /\ last.request.url = "https://app.wayfound.ai/api/v2/sessions/undefined")
    /\ [][(/\ SettledOp(Creation) /\ last.outcome = "returned"
           /\ last.response.data.id = Null
           /\ last'.op = "create" /\ last'.phase = "invoke")
            => (last'.outcome = "pending" /\ last'.request.method = "POST")]_vars

C27_Witness ==
    /\ cls = "Session" /\ InvokedOp({"appendToSession"}) /\ last.outcome = "pending"
    /\ last.pre = Undefined /\ sessionId = Undefined
    /\ last.request.url = "https://app.wayfound.ai/api/v2/sessions/undefined"

\* The creation request of the legacy constructor has not been answered.
LegacyCreationPending == \E i \in 1..Len(inflight) : inflight[i].op = "constructor"

(* C28, about SpecLegacy: the legacy constructor returns with its creation *)
(* request pending and recordingId unset; a recordMessages call made while *)
(* that request is pending puts an update whose recordingId is undefined;  *)
(* no call ever throws; and when the creation request or an update fails,  *)
(* the error is written to the console and nothing else happens, except    *)
(* that a failed creation sets recordingId to null.                        *)
C28_LegacyFireAndForget ==
    /\ LegacyCreationPending => recordingId = Undefined
    /\ (last.op = "constructor" /\ last.phase = "invoke")
          => (LegacyCreationPending /\ last.outcome = "returned")
    /\ (InvokedOp({"recordMessages"}) /\ LegacyCreationPending)
          => /\ last.outcome = "returned"
             /\ last.request.method = "PUT"
             /\ last.request.body.recordingId = Undefined
             /\ inflight[Len(inflight)].request = last.request
    /\ last.outcome # "threw"
    /\ (last.phase = "settle" /\
        (IF last.response.kind = "network" THEN TRUE
         ELSE last.response.status < 200 \/ last.response.status > 299))
          => /\ last.outcome = "logged"
             /\ \E line \in console :
                   line = (IF last.op = "constructor"
                           THEN "Error during POST request: AxiosError: "
                           ELSE "Error during PUT request: AxiosError: ")
                          \o (IF last.response.kind = "network" THEN last.response.message
                              ELSE "Request failed with status code "
                                      \o ToString(last.response.status))
             /\ recordingId = IF last.op = "constructor" THEN Null ELSE last.pre

C28_Witness ==
    /\ SettledOp({"recordMessages"}) /\ last.outcome = "logged"
    /\ last.request.body.recordingId = Undefined
    /\ LegacyCreationPending
    /\ "Error during PUT request: AxiosError: Network Error" \in console

====
